---------------------------- MODULE Spec2Model ----------------------------
(***************************************************************************)
(* GitLab -> Forgejo migration scripts.                                    *)
(*                                                                         *)
(*   src/migrate.py             users, keys, groups, members, projects     *)
(*   src/create_push_mirrors.py push mirrors in both directions            *)
(*                                                                         *)
(* A string is a sequence of characters, a character a one-element token   *)
(* ("a", " ", "U+00C9" for a code point outside ASCII).  The two scripts   *)
(* are two programs: SpecClean runs name_clean alone, Spec runs            *)
(* migrate.py main(), SpecProject runs the per-project helper importers of *)
(* migrate.py that main() does not call, SpecMirror runs                   *)
(* create_push_mirrors.py.                                                 *)
(***************************************************************************)
EXTENDS Integers, Sequences, FiniteSets, TLC

VARIABLES
  pc,                 \* position of the running program
  name,               \* SpecClean: the argument of name_clean
  new_name,           \* SpecClean: name_clean(name)
  again,              \* SpecClean: name_clean(name_clean(name))
  args,               \* the command line flags, as docopt returns them
  GLOBAL_ERROR_COUNT, \* the module-level error counter of the running script
  trace,              \* what the run did so far: requests sent, errors and status printed
  idx,                \* index of the current item of the listing being looped over
  all_projects,       \* create_push_mirrors.py: gl.projects.list(all=True)
  GITLAB_ADMIN_PASS,  \* configuration value gitlab_admin_pass
  glMirrors,          \* GitLab side: the remote mirrors of the projects
  fgMirrors,          \* Forgejo side: the push mirrors of the repositories
  users,              \* migrate.py, GitLab side: gitlab_api.users.list(all=True), with each user's keys
  groups,             \* GitLab side: gitlab_api.groups.list(all=True), with each group's members
  projects,           \* GitLab side: gitlab_api.projects.list(all=True)
  fgUsers,            \* Forgejo side: the user names
  fgKeys,             \* Forgejo side: the public keys, [user, title]
  fgOrgs,             \* Forgejo side: the organization names
  fgTeams,            \* Forgejo side: the teams, [org, id]
  fgMembers,          \* Forgejo side: the team members, [team, username]
  fgRepos,            \* Forgejo side: the repositories, [owner, name]
  jdx,                \* index in the inner listing (a user's keys, a group's members)
  first_team,         \* existing_teams[0] of the group whose members are imported
  run,                \* how many times the script was started
  faults,             \* how many answers of the Forgejo side went wrong so far
  fg_project,         \* SpecProject: the GitLab project a helper importer is called for
  collaborators,      \* SpecProject: project.members.list(all=True)
  fgCollaborators,    \* Forgejo side: the collaborators, [owner, repo, username]
  milestones,         \* SpecProject: project.milestones.list(all=True)
  issues,             \* SpecProject: project.issues.list(all=True)
  fgMilestones,       \* Forgejo side: the milestones of the project's repository
  fgLabels,           \* Forgejo side: the labels of the project's repository
  fgIssues,           \* Forgejo side: the issues of the project's repository
  existing_milestones, \* _import_project_issues: the milestones loaded before the loop
  existing_labels     \* _import_project_issues: the labels loaded before the loop

cleanVars == <<name, new_name, again>>
runVars == <<args, GLOBAL_ERROR_COUNT, trace, idx>>
mirrorVars == <<all_projects, GITLAB_ADMIN_PASS, glMirrors, fgMirrors>>
sourceVars == <<users, groups, projects>>
targetVars == <<fgUsers, fgKeys, fgOrgs, fgTeams, fgMembers, fgRepos>>
loopVars == <<jdx, first_team, run, faults>>
migrateVars == <<sourceVars, targetVars, loopVars>>
trackerVars == <<milestones, issues, fgMilestones, fgLabels, fgIssues,
                 existing_milestones, existing_labels>>
projectVars == <<fg_project, collaborators, fgCollaborators, trackerVars>>
vars == <<pc, cleanVars, runVars, mirrorVars, migrateVars, projectVars>>

(***************************************************************************)
(* Characters                                                              *)
(***************************************************************************)
LowerSeq ==
  <<"a","b","c","d","e","f","g","h","i","j","k","l","m",
    "n","o","p","q","r","s","t","u","v","w","x","y","z">>
UpperSeq ==
  <<"A","B","C","D","E","F","G","H","I","J","K","L","M",
    "N","O","P","Q","R","S","T","U","V","W","X","Y","Z">>
DigitSeq == <<"0","1","2","3","4","5","6","7","8","9">>

Range(s) == {s[i] : i \in DOMAIN s}

\* the character class [a-zA-Z0-9_\.-] of the regular expression
AllowedChar == Range(LowerSeq) \cup Range(UpperSeq) \cup Range(DigitSeq) \cup {"_", ".", "-"}

\* str.lower() on one character: "U+00C9" (E acute) lowers to "U+00E9"
LowerChar(c) ==
  IF \E i \in DOMAIN UpperSeq : UpperSeq[i] = c
  THEN LowerSeq[CHOOSE i \in DOMAIN UpperSeq : UpperSeq[i] = c]
  ELSE IF c = "U+00C9" THEN "U+00E9" ELSE c

lower(s) == [i \in DOMAIN s |-> LowerChar(s[i])]

\* name.replace(" ", "_")
replace_space(s) == [i \in DOMAIN s |-> IF s[i] = " " THEN "_" ELSE s[i]]

\* re.sub(r"[^a-zA-Z0-9_\.-]", "-", new_name)
re_sub(s) == [i \in DOMAIN s |-> IF s[i] \in AllowedChar THEN s[i] ELSE "-"]

RESERVED == <<"p","l","u","g","i","n","s">>
SUFFIX == <<"-","u","s","e","r">>

\* a slip: the reserved word is looked for at the start of the name
name_clean_prefix(n) ==
  LET new == re_sub(replace_space(n))
  IN  IF Len(new) >= Len(RESERVED) /\ lower(SubSeq(new, 1, Len(RESERVED))) = RESERVED
      THEN new \o SUFFIX ELSE new

\* a slip: the space replacement is left out
name_clean_nospace(n) ==
  LET new == re_sub(n)
  IN  IF lower(new) = RESERVED THEN new \o SUFFIX ELSE new

\* a slip: the comparison with the reserved word keeps the letter case
name_clean_nolower(n) ==
  LET new == re_sub(replace_space(n))
  IN  IF new = RESERVED THEN new \o SUFFIX ELSE new

name_clean(n) ==
  LET new == re_sub(replace_space(n))
  IN  IF lower(new) = RESERVED THEN new \o SUFFIX ELSE new

(***************************************************************************)
(* SpecClean: name_clean applied to a bounded set of names                 *)
(***************************************************************************)
MaxLen == 3

\* allowed lower and upper letters, the three allowed signs, a space, two
\* disallowed ASCII characters and a letter outside ASCII
CleanAlphabet == {"a", "P", "_", ".", "-", " ", "/", "U+00C9"}

RECURSIVE SeqsUpTo(_, _)
SeqsUpTo(S, n) ==
  IF n = 0 THEN {<<>>}
  ELSE LET shorter == SeqsUpTo(S, n - 1)
       IN  shorter \cup {Append(s, c) : s \in {t \in shorter : Len(t) = n - 1}, c \in S}

\* every letter-case spelling of the reserved word
ReservedSpellings ==
  {[i \in DOMAIN RESERVED |-> IF i \in up THEN UpperSeq[CHOOSE k \in DOMAIN LowerSeq : LowerSeq[k] = RESERVED[i]]
                                         ELSE RESERVED[i]] : up \in SUBSET DOMAIN RESERVED}

\* the reserved word with one character changed, or with something around it
ReservedNear ==
  {[RESERVED EXCEPT ![i] = c] : i \in DOMAIN RESERVED, c \in {" ", "/", "_", "U+00C9"}}
  \cup {s \o SUFFIX : s \in ReservedSpellings}
  \cup {<<c>> \o RESERVED : c \in {" ", "a"}}
  \cup {RESERVED \o <<c>> : c \in {" ", "-"}}

CleanInputs == SeqsUpTo(CleanAlphabet, MaxLen) \cup ReservedSpellings \cup ReservedNear

\* the value of the variables of a program that is not the one running
IdleClean == name = <<>> /\ new_name = <<>> /\ again = <<>>
IdleRun == args = [none |-> TRUE] /\ GLOBAL_ERROR_COUNT = 0 /\ trace = <<>> /\ idx = 1
IdleMirror == all_projects = <<>> /\ GITLAB_ADMIN_PASS = "" /\ glMirrors = {} /\ fgMirrors = {}
IdleMigrate ==
  /\ users = <<>> /\ groups = <<>> /\ projects = <<>>
  /\ fgUsers = {} /\ fgKeys = {} /\ fgOrgs = {} /\ fgTeams = {} /\ fgMembers = {} /\ fgRepos = {}
  /\ jdx = 1 /\ first_team = 0 /\ run = 1 /\ faults = 0
IdleTracker ==
  /\ milestones = <<>> /\ issues = <<>>
  /\ fgMilestones = {} /\ fgLabels = {} /\ fgIssues = {}
  /\ existing_milestones = {} /\ existing_labels = {}
IdleProject ==
  fg_project = <<>> /\ collaborators = <<>> /\ fgCollaborators = {} /\ IdleTracker

InitClean ==
  /\ pc = "clean"
  /\ name \in CleanInputs
  /\ new_name = <<>>
  /\ again = <<>>
  /\ IdleRun /\ IdleMirror /\ IdleMigrate /\ IdleProject

Clean ==
  /\ pc = "clean"
  /\ new_name' = name_clean(name)
  /\ pc' = "cleaned"
  /\ UNCHANGED <<name, again, runVars, mirrorVars, migrateVars, projectVars>>

CleanAgain ==
  /\ pc = "cleaned"
  /\ again' = name_clean(new_name)
  /\ pc' = "cleaned_twice"
  /\ UNCHANGED <<name, new_name, runVars, mirrorVars, migrateVars, projectVars>>

NextClean == Clean \/ CleanAgain

SpecClean == InitClean /\ [][NextClean]_vars


(***************************************************************************)
(* What a run does: the requests it sends and the lines it prints          *)
(***************************************************************************)
Request(to, op, key, ok) == [ev |-> "request", to |-> to, op |-> op, key |-> key, ok |-> ok]
Error(what, key) == [ev |-> "print_error", what |-> what, key |-> key]
Exception(what, key) == [ev |-> "exception", what |-> what, key |-> key]

Errors(evs) == Cardinality({k \in DOMAIN evs : evs[k].ev = "print_error"})

\* the run sends or prints evs in order; each print_error adds one to the counter
Emit(evs) ==
  /\ trace' = trace \o evs
  /\ GLOBAL_ERROR_COUNT' = GLOBAL_ERROR_COUNT + Errors(evs)

\* a slip: the number in the line is the counter after the line was counted
FinalStatus_counted ==
  IF GLOBAL_ERROR_COUNT = 0
  THEN <<[ev |-> "print_success", what |-> "finished with no errors", key |-> 0]>>
  ELSE <<Error("finished with errors", GLOBAL_ERROR_COUNT + 1)>>

\* the last lines of both scripts
FinalStatus ==
  IF GLOBAL_ERROR_COUNT = 0
  THEN <<[ev |-> "print_success", what |-> "finished with no errors", key |-> 0]>>
  ELSE <<Error("finished with errors", GLOBAL_ERROR_COUNT)>>

Min(S) == CHOOSE x \in S : \A y \in S : x <= y
Max(S) == CHOOSE x \in S : \A y \in S : x >= y

(***************************************************************************)
(* SpecMirror: create_push_mirrors.py                                      *)
(***************************************************************************)
MaxProjects == 2

ProjectPool ==
  << [id |-> "1", namespace_name |-> "Team", name |-> "App",
      namespace_path |-> "team", path |-> "app"],
     [id |-> "2", namespace_name |-> "Alice Doe", name |-> "Site",
      namespace_path |-> "alice", path |-> "site"],
     [id |-> "3", namespace_name |-> "Team", name |-> "Docs",
      namespace_path |-> "team", path |-> "docs"] >>

ProjectLists == {SubSeq(ProjectPool, 1, n) : n \in 0..Min({MaxProjects, Len(ProjectPool)})}

\* project.path_with_namespace ("team/app") and project.name_with_namespace
\* ("Team / App"), each as the pieces it is written from
path_with_namespace(p) == <<p.namespace_path, "/", p.path>>
name_with_namespace(p) == <<p.namespace_name, " / ", p.name>>

FORGEJO_USER == "fgadmin"
FORGEJO_PASSWORD == "fgsecret"
FORGEJO_HOST == "forgejo.example"
GITLAB_ADMIN_USER == "gladmin"

\* FORGEJO_PREFIX_URL = f"https://{FORGEJO_USER}:{FORGEJO_PASSWORD}@{FORGEJO_HOST}"
FORGEJO_PREFIX_URL ==
  [scheme |-> "https", user |-> FORGEJO_USER, password |-> FORGEJO_PASSWORD, host |-> FORGEJO_HOST]

\* proj_url = f"{FORGEJO_PREFIX_URL}/{proj_path}.git"
proj_url(p) ==
  [scheme |-> FORGEJO_PREFIX_URL.scheme, user |-> FORGEJO_PREFIX_URL.user,
   password |-> FORGEJO_PREFIX_URL.password, host |-> FORGEJO_PREFIX_URL.host,
   path |-> path_with_namespace(p) \o <<".git">>]

MirrorFlags == {"to-forgejo", "to-gitlab", "all", "create", "delete"}

\* the four loops in the order the script runs them
Phases == <<"to_forgejo", "to_gitlab", "delete_to_forgejo", "delete_to_gitlab">>

Selected(a, k) ==
  /\ IF k <= 2 THEN a["create"] ELSE a["delete"]
  /\ IF k \in {1, 3} THEN a["to-forgejo"] \/ a["all"] ELSE a["to-gitlab"] \/ a["all"]

PhaseAfter(a, k) ==
  LET later == {m \in (k + 1)..Len(Phases) : Selected(a, m)}
  IN  IF later = {} THEN "status" ELSE Phases[Min(later)]

PhaseIndex(p) == CHOOSE k \in DOMAIN Phases : Phases[k] = p

\* a slip: the two flags are never found together
CreateAndDelete_never(a) == FALSE

\* if args["create"] and args["delete"]
CreateAndDelete(a) == a["create"] /\ a["delete"]

\* a GitLab remote mirror has a number as its id
FreshId(M) == 1 + Max({0} \cup {m.id : m \in M})

GlMirrorsOf(p) == {m \in glMirrors : m.project = p.id}

\* project.remote_mirrors.list(): the mirrors in the order of their ids
RECURSIVE ById(_)
ById(S) ==
  IF S = {} THEN <<>>
  ELSE LET m == CHOOSE x \in S : \A y \in S : x.id <= y.id
       IN  <<m>> \o ById(S \ {m})

\* GitLab's DELETE /projects/:id/remote_mirrors/:mirror_id finds a mirror by
\* its number only
GlFinds(p, ident) ==
  ident.kind = "id" /\ \E m \in GlMirrorsOf(p) : m.id = ident.id

\* Forgejo's /repos/{owner}/{repo}/push_mirrors answers for a path of the
\* form owner/repo that names a repository with mirrors listed
FgServes(path) == Len(path) = 3 /\ path[2] = "/"

FgMirrorsAt(path) == {m \in fgMirrors : m.repo = path}

\* the keys of the JSON object Forgejo answers a missing repository with
NotFoundBody == <<"errors", "message", "url">>

\* what session.get(forgejo_mirror_url).json() can give
ListBodies(path) ==
  (IF FgServes(path)
   THEN {[kind |-> "list", items |-> FgMirrorsAt(path)]}
   ELSE {[kind |-> "object", items |-> {}]})
  \cup {[kind |-> "not_json", items |-> {}]}

RECURSIVE ByName(_)
ByName(S) ==
  IF S = {} THEN <<>>
  ELSE LET m == CHOOSE x \in S : TRUE
       IN  <<m>> \o ByName(S \ {m})

InitMirror ==
  /\ pc = "connect"
  /\ args \in [MirrorFlags -> BOOLEAN]
  /\ GLOBAL_ERROR_COUNT = 0
  /\ trace = <<>>
  /\ idx = 1
  /\ all_projects \in ProjectLists
  /\ GITLAB_ADMIN_PASS \in {"", "glsecret"}
  /\ glMirrors \in {{},
                    {[project |-> "1", id |-> 1, url |-> proj_url(ProjectPool[1])]},
                    {[project |-> "1", id |-> 1, url |-> proj_url(ProjectPool[1])],
                     [project |-> "1", id |-> 2, url |-> proj_url(ProjectPool[1])],
                     [project |-> "2", id |-> 3, url |-> proj_url(ProjectPool[2])]}}
  /\ fgMirrors \in {{}, {[repo |-> path_with_namespace(ProjectPool[1]), remote_name |-> "remote_mirror_a"]}}
  /\ IdleClean /\ IdleMigrate /\ IdleProject

\* gl.auth(), gl.version() and gl.projects.list(all=True); an exception in
\* one of them ends the script
Connect ==
  /\ pc = "connect"
  /\ \E ok \in BOOLEAN :
       IF ok
       THEN /\ Emit(<<Request("gitlab", "auth", "", TRUE),
                      Request("gitlab", "version", "", TRUE),
                      Request("gitlab", "projects.list", "", TRUE)>>)
            /\ pc' = "check"
       ELSE /\ Emit(<<Request("gitlab", "auth", "", FALSE), Exception("gl.auth", "")>>)
            /\ pc' = "crashed"
  /\ UNCHANGED <<args, idx, mirrorVars, cleanVars, migrateVars, projectVars>>

\* the create/delete test, then the first of the selected loops
CheckArgs ==
  /\ pc = "check"
  /\ IF CreateAndDelete(args)
     THEN /\ Emit(<<Error("create and delete", "")>>)
          /\ pc' = "exit"
     ELSE /\ Emit(<<>>)
          /\ pc' = PhaseAfter(args, 0)
  /\ UNCHANGED <<args, idx, mirrorVars, cleanVars, migrateVars, projectVars>>

InLoop(phase) == pc = phase /\ idx <= Len(all_projects)

to_forgejo ==
  /\ InLoop("to_forgejo")
  /\ LET project == all_projects[idx]
         url == proj_url(project)
     IN  \E ok \in BOOLEAN :
           /\ Emit(<<Request("gitlab", "remote_mirrors.create", [project |-> project.id, url |-> url], ok)>>
                   \o IF ok THEN <<>> ELSE <<Error("setting push mirror on Gitlab", project.id)>>)
           /\ glMirrors' = IF ok
                           THEN glMirrors \cup {[project |-> project.id, id |-> FreshId(glMirrors), url |-> url]}
                           ELSE glMirrors
  /\ idx' = idx + 1
  /\ UNCHANGED <<pc, args, all_projects, GITLAB_ADMIN_PASS, fgMirrors, cleanVars, migrateVars, projectVars>>

\* session.post(url, json=post_data, rimeout=10): Session.request() takes no
\* keyword rimeout, so the call raises TypeError before anything is sent; the
\* lines after it are never run
to_gitlab ==
  /\ InLoop("to_gitlab")
  /\ Emit(<<Exception("session.post", all_projects[idx].id)>>)
  /\ pc' = "crashed"
  /\ UNCHANGED <<args, idx, mirrorVars, cleanVars, migrateVars, projectVars>>

\* the for loop over the listed mirrors: one delete request per mirror, and
\* an error printed after each one that raised
RECURSIVE DeleteEvents(_, _, _)
DeleteEvents(p, mirrors, failed) ==
  IF mirrors = <<>> THEN <<>>
  ELSE LET m == Head(mirrors)
       IN  <<Request("gitlab", "remote_mirrors.delete", [project |-> p.id, kind |-> "id", id |-> m.id],
                     m \notin failed)>>
           \o (IF m \in failed THEN <<Error("deleting push mirror on Gitlab", p.id)>> ELSE <<>>)
           \o DeleteEvents(p, Tail(mirrors), failed)

\* remote_mirrors.list() is outside the try: an exception in it ends the script
delete_to_forgejo ==
  /\ InLoop("delete_to_forgejo")
  /\ LET project == all_projects[idx]
         mirrors == ById(GlMirrorsOf(project))
         list == Request("gitlab", "remote_mirrors.list", project.id, TRUE)
     IN  \E listed \in BOOLEAN, failed \in SUBSET GlMirrorsOf(project) :
           IF ~listed
           THEN /\ failed = {}
                /\ Emit(<<Request("gitlab", "remote_mirrors.list", project.id, FALSE),
                          Exception("remote_mirrors.list", project.id)>>)
                /\ pc' = "crashed"
                /\ UNCHANGED <<idx, glMirrors>>
           ELSE /\ Emit(IF mirrors = <<>> THEN <<list>>
                        ELSE <<list, list>> \o DeleteEvents(project, mirrors, failed))
                /\ glMirrors' = glMirrors \ (GlMirrorsOf(project) \ failed)
                /\ idx' = idx + 1
                /\ pc' = pc
  /\ UNCHANGED <<args, all_projects, GITLAB_ADMIN_PASS, fgMirrors, cleanVars, migrateVars, projectVars>>

\* forgejo_mirror_url = f"{FORGEJO_API_URL}/repos/puppet/{proj_path}/push_mirrors"
\* with proj_path = project.name_with_namespace
forgejo_mirror_url(p) == <<"puppet", "/">> \o name_with_namespace(p)

\* the body of the for loop over a listed mirror: the mirror is deleted
\* through project.remote_mirrors, the GitLab client, under the Forgejo URL
ForgejoDeleteEvents(p, mirrors) ==
  [k \in 1..(2 * Len(mirrors)) |->
     IF k % 2 = 1
     THEN Request("gitlab", "remote_mirrors.delete",
                  [project |-> p.id, kind |-> "url", id |-> mirrors[(k + 1) \div 2].remote_name],
                  GlFinds(p, [kind |-> "url", id |-> mirrors[(k + 1) \div 2].remote_name]))
     ELSE Error("deleting push mirror on Forgejo", p.id)]

\* session.get(...).json() is outside the try: a body that is not JSON ends
\* the script.  Looping over a JSON object gives its keys, and indexing a key
\* with 'remote_name' raises inside the try.
delete_to_gitlab ==
  /\ InLoop("delete_to_gitlab")
  /\ LET project == all_projects[idx]
         url == forgejo_mirror_url(project)
     IN  \E body \in ListBodies(url) :
           IF body.kind = "not_json"
           THEN /\ Emit(<<Request("forgejo", "push_mirrors.list", url, FALSE),
                          Exception("response.json", project.id)>>)
                /\ pc' = "crashed"
                /\ idx' = idx
           ELSE /\ Emit(<<Request("forgejo", "push_mirrors.list", url, body.kind = "list")>>
                        \o (IF body.kind = "list"
                            THEN ForgejoDeleteEvents(project, ByName(body.items))
                            ELSE [k \in DOMAIN NotFoundBody |-> Error("deleting push mirror on Forgejo", project.id)]))
                /\ idx' = idx + 1
                /\ pc' = pc
  /\ UNCHANGED <<args, mirrorVars, cleanVars, migrateVars, projectVars>>

\* the end of one of the four loops: on to the next selected one
EndLoop ==
  /\ pc \in Range(Phases)
  /\ idx > Len(all_projects)
  /\ pc' = PhaseAfter(args, PhaseIndex(pc))
  /\ idx' = 1
  /\ UNCHANGED <<args, GLOBAL_ERROR_COUNT, trace, mirrorVars, cleanVars, migrateVars, projectVars>>

MirrorStatus ==
  /\ pc = "status"
  /\ Emit(FinalStatus)
  /\ pc' = "done"
  /\ UNCHANGED <<args, idx, mirrorVars, cleanVars, migrateVars, projectVars>>

NextMirror ==
  \/ Connect
  \/ CheckArgs
  \/ to_forgejo
  \/ to_gitlab
  \/ delete_to_forgejo
  \/ delete_to_gitlab
  \/ EndLoop
  \/ MirrorStatus

SpecMirror == InitMirror /\ [][NextMirror]_vars


(***************************************************************************)
(* Spec: migrate.py main()                                                 *)
(***************************************************************************)
MaxRuns == 2
MaxFaults == 1

alice == <<"a","l","i","c","e">>
bob == <<"b","o","b">>
redirect == <<"r","e","d","i","r","e","c","t">>
laptop == <<"l","a","p","t","o","p">>
DevOps == <<"D","e","v"," ","O","p","s">>
AliceDoe == <<"A","l","i","c","e"," ","D","o","e">>

\* what the GitLab side holds: the listing of each kind
Sources ==
  { [users |-> <<[username |-> alice, keys |-> <<laptop>>]>>,
     groups |-> <<>>,
     projects |-> <<>>],
    [users |-> <<[username |-> alice, keys |-> <<laptop>>], [username |-> bob, keys |-> <<>>]>>,
     groups |-> <<[name |-> DevOps, members |-> <<alice, bob>>]>>,
     projects |-> <<[name |-> <<"M","y"," ","A","p","p">>,
                     namespace |-> [name |-> DevOps, path |-> <<"d","e","v","-","o","p","s">>]],
                    [name |-> <<"s","i","t","e">>,
                     namespace |-> [name |-> AliceDoe, path |-> alice]],
                    [name |-> <<"t","o","o","l">>,
                     namespace |-> [name |-> bob, path |-> bob]]>>] }

\* what the Forgejo side holds before the first run
Targets ==
  { [users |-> {}, keys |-> {}, orgs |-> {}, teams |-> {}, members |-> {}, repos |-> {}],
    [users |-> {redirect}, keys |-> {}, orgs |-> {name_clean(DevOps)}, teams |-> {},
     members |-> {}, repos |-> {}],
    [users |-> {redirect, alice}, keys |-> {[user |-> alice, title |-> laptop]},
     orgs |-> {name_clean(DevOps)}, teams |-> {[org |-> name_clean(DevOps), id |-> 1]},
     members |-> {[team |-> 1, username |-> alice]},
     repos |-> {[owner |-> name_clean(DevOps), name |-> <<"M","y","_","A","p","p">>]}] }

MigrateFlags == {"users", "groups", "projects", "all", "notify"}
Flags(on) == [f \in MigrateFlags |-> f \in on]

\* the command lines tried
ArgChoices ==
  {Flags({}), Flags({"users"}), Flags({"users", "notify"}), Flags({"groups"}),
   Flags({"projects"}), Flags({"all"}), Flags({"users", "projects"})}

Check(kind, key, exists) == [ev |-> "check", kind |-> kind, key |-> key, exists |-> exists]

\* a request that creates: key is what the request names, check_key what the
\* existence check before it named, present whether the Forgejo side held
\* the entity of key when the request was sent, lookup_failed whether an
\* answer to the check was lost
Create(op, key, check_key, present, lookup_failed, ok) ==
  [ev |-> "request", to |-> "forgejo", op |-> op, key |-> key, ok |-> ok,
   check_key |-> check_key, present |-> present, lookup_failed |-> lookup_failed]

CreateOps ==
  {"admin_create_user", "admin_create_public_key", "org_create", "put_users", "repo_migrate",
   "put_collaborator"}
IsCreate(e) == e.ev = "request" /\ e.op \in CreateOps

\* what an answer that is not OK carries: Forgejo's own JSON error object
\* with the keys the code reads, or anything else (the page of a proxy, text
\* that is no JSON)
ErrorBodies == {"message", "other"}

\* the else branch after a creation: json.loads(import_response.content)["message"]
\* and then print_error; a body without that key raises out of the importer
failure(what, key, body) ==
  IF body = "message" THEN <<Error(what, key)>> ELSE <<Exception("json.loads", key)>>

\* where main() goes on after a creation step: nowhere once the step raised
after(raised, then) == IF raised THEN "crashed" ELSE then

\* the answers that go wrong in one step: n answers, at most as many lost or
\* refused as the bound leaves
Wrong(n) == {w \in [1..n -> BOOLEAN] : faults + Cardinality({k \in 1..n : w[k]}) <= MaxFaults}
Count(w) == Cardinality({k \in DOMAIN w : w[k]})

InitMigrate ==
  /\ pc = "main"
  /\ args \in ArgChoices
  /\ GLOBAL_ERROR_COUNT = 0
  /\ trace = <<[ev |-> "start", run |-> 1, args |-> args]>>
  /\ idx = 1 /\ jdx = 1 /\ first_team = 0 /\ run = 1 /\ faults = 0
  /\ \E src \in Sources :
       users = src.users /\ groups = src.groups /\ projects = src.projects
  /\ \E tgt \in Targets :
       /\ fgUsers = tgt.users /\ fgKeys = tgt.keys /\ fgOrgs = tgt.orgs
       /\ fgTeams = tgt.teams /\ fgMembers = tgt.members /\ fgRepos = tgt.repos
  /\ IdleClean /\ IdleMirror /\ IdleProject

Kinds == <<"users", "groups", "projects">>
Wanted(a, k) == a[Kinds[k]] \/ a["all"]
Entry(k) == IF Kinds[k] = "users" THEN "redirect" ELSE Kinds[k]

\* a slip: the if of the projects stands before the if of the groups
KindAfter_projects_first(a, k) ==
  LET order == <<1, 3, 2>>
      place == IF k = 0 THEN 0 ELSE CHOOSE n \in 1..3 : order[n] = k
      later == {n \in (place + 1)..3 : Wanted(a, order[n])}
  IN  IF later # {} THEN Entry(order[Min(later)])
      ELSE IF \E m \in DOMAIN Kinds : Wanted(a, m) THEN "status" ELSE "nothing"

\* the chain of ifs of main(): the next wanted kind; after the last one the
\* warning and exit() when nothing was wanted, the status line otherwise
KindAfter(a, k) ==
  LET later == {m \in (k + 1)..Len(Kinds) : Wanted(a, m)}
  IN  IF later # {} THEN Entry(Min(later))
      ELSE IF \E m \in DOMAIN Kinds : Wanted(a, m) THEN "status" ELSE "nothing"

\* gl.auth(), gl.version() and get_version: an exception ends the script
Main ==
  /\ pc = "main"
  /\ \E ok \in BOOLEAN :
       IF ok
       THEN /\ Emit(<<Request("gitlab", "auth", "", TRUE),
                      Request("gitlab", "version", "", TRUE),
                      Request("forgejo", "get_version", "", TRUE)>>)
            /\ pc' = KindAfter(args, 0)
       ELSE /\ Emit(<<Request("gitlab", "auth", "", FALSE), Exception("gl.auth", "")>>)
            /\ pc' = "crashed"
  /\ idx' = 1
  /\ UNCHANGED <<args, sourceVars, targetVars, loopVars, cleanVars, mirrorVars, projectVars>>

\* user_get: OK when the user is there and the answer is not lost
user_exists(username, lost) ==
  LET ok == username \in fgUsers /\ ~lost
  IN  [exists |-> ok,
       evs |-> <<Request("forgejo", "user_get", [username |-> username], ok),
                 Check("user", [username |-> username], ok)>>]

\* a slip: the user is created whatever user_exists says
user_absent_always(chk) == TRUE

\* if not user_exists(fg_api, user.username)
user_absent(chk) == ~chk.exists

\* admin_create_user and what follows its answer; Forgejo refuses a name it has
create_user(username, notify, chk, lost, refused, body) ==
  LET present == username \in fgUsers
      ok == ~present /\ ~refused
  IN  [ok |-> ok,
       raised |-> ~ok /\ body # "message",
       evs |-> <<Create("admin_create_user", [username |-> username], [username |-> username],
                        present, lost, ok) @@ [send_notify |-> notify]>>
               \o (IF ok THEN <<>> ELSE failure("user import failed", username, body))]

\* main() calls import_users(gl, fg): notify keeps its default
import_users_notify == FALSE

\* the head of _import_users: the user "redirect"
ImportRedirect ==
  /\ pc = "redirect"
  /\ \E w \in Wrong(2), body \in ErrorBodies :
       LET chk == user_exists(redirect, w[1])
           new == create_user(redirect, FALSE, chk, w[1], w[2], body)
       IN  /\ w[1] => redirect \in fgUsers
           /\ body # "message" => w[2]
           /\ IF user_absent(chk)
              THEN /\ Emit(chk.evs \o new.evs)
                   /\ fgUsers' = IF new.ok THEN fgUsers \cup {redirect} ELSE fgUsers
                   /\ pc' = after(new.raised, "users")
              ELSE /\ ~w[2]
                   /\ Emit(chk.evs)
                   /\ fgUsers' = fgUsers
                   /\ pc' = "users"
           /\ faults' = faults + Count(w)
  /\ idx' = 1
  /\ UNCHANGED <<args, sourceVars, fgKeys, fgOrgs, fgTeams, fgMembers, fgRepos,
                 jdx, first_team, run, cleanVars, mirrorVars, projectVars>>

\* one turn of the for loop of _import_users, up to the call of _import_user_keys
ImportUser ==
  /\ pc = "users"
  /\ idx <= Len(users)
  /\ \E w \in Wrong(2), body \in ErrorBodies :
       LET user == users[idx]
           chk == user_exists(user.username, w[1])
           new == create_user(user.username, import_users_notify, chk, w[1], w[2], body)
       IN  /\ w[1] => user.username \in fgUsers
           /\ body # "message" => w[2]
           /\ IF user_absent(chk)
              THEN /\ Emit(chk.evs \o new.evs)
                   /\ fgUsers' = IF new.ok THEN fgUsers \cup {user.username} ELSE fgUsers
                   /\ pc' = after(new.raised, "keys")
              ELSE /\ ~w[2]
                   /\ Emit(chk.evs)
                   /\ fgUsers' = fgUsers
                   /\ pc' = "keys"
           /\ faults' = faults + Count(w)
  /\ jdx' = 1
  /\ UNCHANGED <<args, idx, sourceVars, fgKeys, fgOrgs, fgTeams, fgMembers, fgRepos,
                 first_team, run, cleanVars, mirrorVars, projectVars>>

\* user_list_keys: OK when the user is there and the answer is not lost;
\* anything else is printed as an error and read as no keys
get_user_keys(username, lost) ==
  LET ok == username \in fgUsers /\ ~lost
  IN  [keys |-> IF ok THEN {k.title : k \in {x \in fgKeys : x.user = username}} ELSE {},
       evs |-> <<Request("forgejo", "user_list_keys", [username |-> username], ok)>>
               \o (IF ok THEN <<>> ELSE <<Error("load user keys", username)>>)]

\* a slip: the titles of the listed keys are never compared
user_key_exists_never(username, keyname, lost) ==
  LET got == get_user_keys(username, lost)
  IN  [exists |-> FALSE,
       evs |-> got.evs \o <<Check("key", [username |-> username, title |-> keyname], FALSE)>>]

user_key_exists(username, keyname, lost) ==
  LET got == get_user_keys(username, lost)
      found == keyname \in got.keys
  IN  [exists |-> found,
       evs |-> got.evs \o <<Check("key", [username |-> username, title |-> keyname], found)>>]

\* one turn of the for loop of _import_user_keys; Forgejo refuses a key for a
\* user it does not have and a title the user has
ImportUserKey ==
  /\ pc = "keys"
  /\ jdx <= Len(users[idx].keys)
  /\ \E w \in Wrong(2), body \in ErrorBodies :
       LET user == users[idx]
           key == user.keys[jdx]
           chk == user_key_exists(user.username, key, w[1])
           present == [user |-> user.username, title |-> key] \in fgKeys
           ok == user.username \in fgUsers /\ ~present /\ ~w[2]
           id == [username |-> user.username, title |-> key]
       IN  /\ w[1] => user.username \in fgUsers
           /\ body # "message" => w[2]
           /\ IF ~chk.exists
              THEN /\ Emit(chk.evs
                           \o <<Create("admin_create_public_key", id, id, present, w[1], ok)>>
                           \o (IF ok THEN <<>> ELSE failure("public key import failed", key, body)))
                   /\ fgKeys' = IF ok THEN fgKeys \cup {[user |-> user.username, title |-> key]} ELSE fgKeys
                   /\ pc' = after(~ok /\ body # "message", pc)
              ELSE /\ ~w[2]
                   /\ Emit(chk.evs)
                   /\ fgKeys' = fgKeys
                   /\ pc' = pc
           /\ faults' = faults + Count(w)
  /\ jdx' = jdx + 1
  /\ UNCHANGED <<args, idx, sourceVars, fgUsers, fgOrgs, fgTeams, fgMembers, fgRepos,
                 first_team, run, cleanVars, mirrorVars, projectVars>>

\* _import_user_keys returns: the next user
EndKeys ==
  /\ pc = "keys"
  /\ jdx > Len(users[idx].keys)
  /\ pc' = "users"
  /\ idx' = idx + 1
  /\ jdx' = 1
  /\ UNCHANGED <<args, GLOBAL_ERROR_COUNT, trace, sourceVars, targetVars,
                 first_team, run, faults, cleanVars, mirrorVars, projectVars>>

\* import_users returns
EndUsers ==
  /\ pc = "users"
  /\ idx > Len(users)
  /\ pc' = KindAfter(args, 1)
  /\ idx' = 1
  /\ UNCHANGED <<args, GLOBAL_ERROR_COUNT, trace, sourceVars, targetVars, loopVars,
                 cleanVars, mirrorVars, projectVars>>

\* org_get: OK when the organization is there and the answer is not lost
organization_exists(orgname, lost) ==
  LET ok == orgname \in fgOrgs /\ ~lost
  IN  [exists |-> ok,
       evs |-> <<Request("forgejo", "org_get", [orgname |-> orgname], ok),
                 Check("organization", [orgname |-> orgname], ok)>>]

TeamsOf(orgname) == {t \in fgTeams : t.org = orgname}
FreshTeam == 1 + Max({0} \cup {t.id : t \in fgTeams})

\* one turn of the for loop of _import_groups, up to the call of
\* _import_group_members; Forgejo gives a new organization its team of owners
ImportGroup ==
  /\ pc = "groups"
  /\ idx <= Len(groups)
  /\ \E w \in Wrong(2), body \in ErrorBodies :
       LET orgname == name_clean(groups[idx].name)
           chk == organization_exists(orgname, w[1])
           present == orgname \in fgOrgs
           ok == ~present /\ ~w[2]
           id == [orgname |-> orgname]
       IN  /\ w[1] => present
           /\ body # "message" => w[2]
           /\ IF ~chk.exists
              THEN /\ Emit(chk.evs \o <<Create("org_create", id, id, present, w[1], ok)>>
                           \o (IF ok THEN <<>> ELSE failure("group import failed", orgname, body)))
                   /\ fgOrgs' = IF ok THEN fgOrgs \cup {orgname} ELSE fgOrgs
                   /\ fgTeams' = IF ok THEN fgTeams \cup {[org |-> orgname, id |-> FreshTeam]} ELSE fgTeams
                   /\ pc' = after(~ok /\ body # "message", "teams")
              ELSE /\ ~w[2]
                   /\ Emit(chk.evs)
                   /\ UNCHANGED <<fgOrgs, fgTeams>>
                   /\ pc' = "teams"
           /\ faults' = faults + Count(w)
  /\ UNCHANGED <<args, idx, sourceVars, fgUsers, fgKeys, fgMembers, fgRepos,
                 jdx, first_team, run, cleanVars, mirrorVars, projectVars>>

\* org_list_teams: OK when the organization is there and the answer is not
\* lost; anything else is printed as an error and read as no teams, after
\* json.loads(team_response.content)["errors"], which Forgejo's answer for an
\* organization it does not have carries and another body need not
get_teams(orgname, lost, body) ==
  LET ok == orgname \in fgOrgs /\ ~lost
  IN  [teams |-> IF ok THEN ById(TeamsOf(orgname)) ELSE <<>>,
       raised |-> ~ok /\ body # "message",
       evs |-> <<Request("forgejo", "org_list_teams", [orgname |-> orgname], ok)>>
               \o (IF ok THEN <<>> ELSE failure("load teams", orgname, body))]

\* the head of _import_group_members: the first team, or the error
ImportGroupTeams ==
  /\ pc = "teams"
  /\ \E w \in Wrong(1), body \in ErrorBodies :
       LET orgname == name_clean(groups[idx].name)
           existing_teams == get_teams(orgname, w[1], body)
       IN  /\ w[1] => orgname \in fgOrgs
           /\ body # "message" => w[1]
           /\ IF existing_teams.raised
              THEN /\ Emit(existing_teams.evs)
                   /\ first_team' = first_team
                   /\ pc' = "crashed"
                   /\ idx' = idx
              ELSE IF existing_teams.teams # <<>>
              THEN /\ Emit(existing_teams.evs)
                   /\ first_team' = existing_teams.teams[1].id
                   /\ pc' = "members"
                   /\ idx' = idx
              ELSE /\ Emit(existing_teams.evs \o <<Error("no teams found", orgname)>>)
                   /\ first_team' = first_team
                   /\ pc' = "groups"
                   /\ idx' = idx + 1
           /\ faults' = faults + Count(w)
  /\ jdx' = 1
  /\ UNCHANGED <<args, sourceVars, targetVars, run, cleanVars, mirrorVars, projectVars>>

\* GET /teams/{teamid}/members: anything but OK is printed as an error and
\* read as no members
get_team_members(teamid, lost) ==
  LET ok == (\E t \in fgTeams : t.id = teamid) /\ ~lost
  IN  [members |-> IF ok THEN {m.username : m \in {x \in fgMembers : x.team = teamid}} ELSE {},
       evs |-> <<Request("forgejo", "get_team_members", [teamid |-> teamid], ok)>>
               \o (IF ok THEN <<>> ELSE <<Error("load members", teamid)>>)]

member_exists(username, teamid, lost) ==
  LET got == get_team_members(teamid, lost)
      found == username \in got.members
  IN  [exists |-> found,
       evs |-> got.evs \o <<Check("member", [teamid |-> teamid, username |-> username], found)>>]

\* one turn of the for loop over the members: the request that follows the
\* check is PUT {FORGEJO_API_URL}/users/{member.username}, which names no team
\* and adds nobody to one, whether Forgejo answers OK or not
ImportGroupMember ==
  /\ pc = "members"
  /\ jdx <= Len(groups[idx].members)
  /\ \E w \in Wrong(2) :
       LET username == groups[idx].members[jdx]
           chk == member_exists(username, first_team, w[1])
           present == [team |-> first_team, username |-> username] \in fgMembers
           ok == ~w[2]
       IN  /\ w[1] => \E t \in fgTeams : t.id = first_team
           /\ w[2] => ~chk.exists
           /\ IF ~chk.exists
              THEN Emit(chk.evs
                        \o <<Create("put_users", [username |-> username],
                                    [teamid |-> first_team, username |-> username], present, w[1], ok)>>
                        \o (IF ok THEN <<>> ELSE <<Error("add member", username)>>))
              ELSE Emit(chk.evs)
           /\ faults' = faults + Count(w)
  /\ jdx' = jdx + 1
  /\ UNCHANGED <<pc, args, idx, sourceVars, targetVars, first_team, run, cleanVars, mirrorVars, projectVars>>

\* _import_group_members returns: the next group
EndMembers ==
  /\ pc = "members"
  /\ jdx > Len(groups[idx].members)
  /\ pc' = "groups"
  /\ idx' = idx + 1
  /\ jdx' = 1
  /\ UNCHANGED <<args, GLOBAL_ERROR_COUNT, trace, sourceVars, targetVars,
                 first_team, run, faults, cleanVars, mirrorVars, projectVars>>

\* import_groups returns
EndGroups ==
  /\ pc = "groups"
  /\ idx > Len(groups)
  /\ pc' = KindAfter(args, 2)
  /\ idx' = 1
  /\ UNCHANGED <<args, GLOBAL_ERROR_COUNT, trace, sourceVars, targetVars, loopVars,
                 cleanVars, mirrorVars, projectVars>>

\* repo_get: OK when the repository is there and the answer is not lost
repo_exists(owner, repo, lost) ==
  LET ok == [owner |-> owner, name |-> repo] \in fgRepos /\ ~lost
  IN  [exists |-> ok,
       evs |-> <<Request("forgejo", "repo_get", [owner |-> owner, repo |-> repo], ok),
                 Check("repository", [owner |-> owner, repo |-> repo], ok)>>]

\* a slip: the organization is asked for first, the user after it
get_user_or_group_orgfirst(project, lost_user, lost_org) ==
  LET proj_namespace_path == project.namespace.path
      proj_namespace_name == name_clean(project.namespace.name)
      user_ok == proj_namespace_path \in fgUsers /\ ~lost_user
      org_ok == proj_namespace_name \in fgOrgs /\ ~lost_org
      ask_user == Request("forgejo", "get_users", [username |-> proj_namespace_path], user_ok)
      ask_org == Request("forgejo", "get_orgs", [orgname |-> proj_namespace_name], org_ok)
  IN  IF org_ok THEN [found |-> TRUE, id |-> proj_namespace_name, evs |-> <<ask_org>>]
      ELSE IF user_ok THEN [found |-> TRUE, id |-> proj_namespace_path, evs |-> <<ask_org, ask_user>>]
      ELSE [found |-> FALSE, id |-> <<>>,
            evs |-> <<ask_org, ask_user, Error("load user or group", proj_namespace_name)>>]

\* GET /users/{path}, and when that is not OK GET /orgs/{cleaned name}; the
\* result is the owner found (its id stands for its name), or None and an error
get_user_or_group(project, lost_user, lost_org) ==
  LET proj_namespace_path == project.namespace.path
      proj_namespace_name == name_clean(project.namespace.name)
      user_ok == proj_namespace_path \in fgUsers /\ ~lost_user
      org_ok == proj_namespace_name \in fgOrgs /\ ~lost_org
      ask_user == Request("forgejo", "get_users", [username |-> proj_namespace_path], user_ok)
      ask_org == Request("forgejo", "get_orgs", [orgname |-> proj_namespace_name], org_ok)
  IN  IF user_ok THEN [found |-> TRUE, id |-> proj_namespace_path, evs |-> <<ask_user>>]
      ELSE IF org_ok THEN [found |-> TRUE, id |-> proj_namespace_name, evs |-> <<ask_user, ask_org>>]
      ELSE [found |-> FALSE, id |-> <<>>,
            evs |-> <<ask_user, ask_org, Error("load user or group", proj_namespace_name)>>]

\* the owner the existence check names: project.namespace["name"]
repo_check_owner(project) == project.namespace.name

\* a slip: the call of _import_project_repo_collaborators is left in, here
\* for the owner of the namespace as the one member of the project
import_project_helpers_collaborators(project) ==
  LET path == <<name_clean(project.name), <<"collaborators">>, project.namespace.path>>
      id == [owner |-> project.namespace.name, repo |-> name_clean(project.name),
             username |-> project.namespace.path]
  IN  <<Request("forgejo", "get_collaborator", [path |-> path], FALSE),
        Check("collaborator", [path |-> path], FALSE),
        Create("put_collaborator", id, [path |-> path], FALSE, FALSE, FALSE),
        Error("collaborator import failed", project.namespace.path)>>

\* what import_projects sends for a project after _import_project_repo has
\* returned: the calls of the importers of collaborators, labels, milestones
\* and issues are commented out, so nothing
import_project_helpers(project) == <<>>

\* _import_project_repo: one turn of the for loop of import_projects.  Forgejo
\* refuses to migrate into a repository the owner has.
ImportProjectRepo ==
  /\ pc = "projects"
  /\ idx <= Len(projects)
  /\ \E w \in Wrong(4), body \in ErrorBodies :
       LET project == projects[idx]
           repo_name == name_clean(project.name)
           chk == repo_exists(repo_check_owner(project), repo_name, w[1])
           owner == get_user_or_group(project, w[2], w[3])
           present == [owner |-> owner.id, name |-> repo_name] \in fgRepos
           ok == ~present /\ ~w[4]
       IN  /\ w[1] => [owner |-> repo_check_owner(project), name |-> repo_name] \in fgRepos
           /\ w[2] => ~chk.exists /\ project.namespace.path \in fgUsers
           /\ w[3] => ~chk.exists /\ name_clean(project.namespace.name) \in fgOrgs
                       /\ project.namespace.path \notin fgUsers
           /\ w[4] => ~chk.exists /\ owner.found
           /\ body # "message" => w[4]
           /\ pc' = after(~chk.exists /\ owner.found /\ ~ok /\ body # "message", pc)
           /\ IF chk.exists
              THEN /\ Emit(chk.evs \o import_project_helpers(project))
                   /\ fgRepos' = fgRepos
              ELSE IF owner.found
              THEN /\ Emit(chk.evs \o owner.evs
                           \o <<Create("repo_migrate", [owner |-> owner.id, repo |-> repo_name],
                                       [owner |-> repo_check_owner(project), repo |-> repo_name],
                                       present, w[1], ok)>>
                           \o (IF ok THEN <<>> ELSE failure("project import failed", repo_name, body))
                           \o (IF ~ok /\ body # "message" THEN <<>>
                               ELSE import_project_helpers(project)))
                   /\ fgRepos' = IF ok THEN fgRepos \cup {[owner |-> owner.id, name |-> repo_name]}
                                 ELSE fgRepos
              ELSE /\ Emit(chk.evs \o owner.evs \o <<Error("load project owner", repo_name)>>
                           \o import_project_helpers(project))
                   /\ fgRepos' = fgRepos
           /\ faults' = faults + Count(w)
  /\ idx' = idx + 1
  /\ UNCHANGED <<args, sourceVars, fgUsers, fgKeys, fgOrgs, fgTeams, fgMembers,
                 jdx, first_team, run, cleanVars, mirrorVars, projectVars>>

\* import_projects returns
EndProjects ==
  /\ pc = "projects"
  /\ idx > Len(projects)
  /\ pc' = KindAfter(args, 3)
  /\ idx' = 1
  /\ UNCHANGED <<args, GLOBAL_ERROR_COUNT, trace, sourceVars, targetVars, loopVars,
                 cleanVars, mirrorVars, projectVars>>

\* nothing was wanted: the warning and exit()
NothingToDo ==
  /\ pc = "nothing"
  /\ Emit(<<[ev |-> "print_warning", what |-> "nothing to do", key |-> 0]>>)
  /\ pc' = "exit"
  /\ UNCHANGED <<args, idx, sourceVars, targetVars, loopVars, cleanVars, mirrorVars, projectVars>>

\* the last lines of main()
MigrateStatus ==
  /\ pc = "status"
  /\ Emit(FinalStatus)
  /\ pc' = "done"
  /\ UNCHANGED <<args, idx, sourceVars, targetVars, loopVars, cleanVars, mirrorVars, projectVars>>

\* the same command line is started again, against the same two sides
Restart ==
  /\ pc \in {"done", "exit", "crashed"}
  /\ run < MaxRuns
  /\ args' = args
  /\ GLOBAL_ERROR_COUNT' = 0
  /\ trace' = Append(trace, [ev |-> "start", run |-> run + 1, args |-> args'])
  /\ run' = run + 1
  /\ pc' = "main"
  /\ idx' = 1 /\ jdx' = 1 /\ first_team' = 0
  /\ UNCHANGED <<sourceVars, targetVars, faults, cleanVars, mirrorVars, projectVars>>

Next ==
  \/ Main
  \/ ImportRedirect
  \/ ImportUser
  \/ ImportUserKey
  \/ EndKeys
  \/ EndUsers
  \/ ImportGroup
  \/ ImportGroupTeams
  \/ ImportGroupMember
  \/ EndMembers
  \/ EndGroups
  \/ ImportProjectRepo
  \/ EndProjects
  \/ NothingToDo
  \/ MigrateStatus
  \/ Restart

Spec == InitMigrate /\ [][Next]_vars


(***************************************************************************)
(* SpecProject: the helper importers of migrate.py that import_projects    *)
(* leaves commented out, each called for one project                       *)
(***************************************************************************)
MaxCollaborators == 2

AccessLevels == {10, 20, 30, 40, 50, 60}

CollaboratorLists ==
  SeqsUpTo([username : {alice, bob}, access_level : AccessLevels], MaxCollaborators)

\* GET /repos/{repo}/collaborators/{username}: the owner is not in the
\* path.  Forgejo answers OK for owner/repo/collaborators/username when the
\* repository has the collaborator.
FgHasCollaborator(path) ==
  /\ Len(path) = 4
  /\ path[3] = <<"collaborators">>
  /\ [owner |-> path[1], repo |-> path[2], username |-> path[4]] \in fgCollaborators

collaborator_exists(owner, repo, username, lost) ==
  LET path == <<repo, <<"collaborators">>, username>>
      ok == FgHasCollaborator(path) /\ ~lost
  IN  [exists |-> ok,
       evs |-> <<Request("forgejo", "get_collaborator", [path |-> path], ok),
                 Check("collaborator", [path |-> path], ok)>>]

\* a slip: developer access is given the permission of a maintainer
permission_developer_admin(access_level) ==
  CASE access_level \in {10, 20} -> [supported |-> TRUE, permission |-> "read", warned |-> FALSE]
    [] access_level \in {30, 40} -> [supported |-> TRUE, permission |-> "admin", warned |-> FALSE]
    [] access_level = 50 -> [supported |-> FALSE, permission |-> "", warned |-> FALSE]
    [] OTHER -> [supported |-> TRUE, permission |-> "read", warned |-> TRUE]

\* the if/elif chain on collaborator.access_level
permission(access_level) ==
  CASE access_level = 10 -> [supported |-> TRUE, permission |-> "read", warned |-> FALSE]
    [] access_level = 20 -> [supported |-> TRUE, permission |-> "read", warned |-> FALSE]
    [] access_level = 30 -> [supported |-> TRUE, permission |-> "write", warned |-> FALSE]
    [] access_level = 40 -> [supported |-> TRUE, permission |-> "admin", warned |-> FALSE]
    [] access_level = 50 -> [supported |-> FALSE, permission |-> "", warned |-> FALSE]
    [] OTHER -> [supported |-> TRUE, permission |-> "read", warned |-> TRUE]

\* Python's None and a value that is not None, for a field that may be either
None == <<>>
Some(x) == <<x>>

Info(what, key) == [ev |-> "print_info", what |-> what, key |-> key]

MaxMilestones == 2

\* project.milestones.list(all=True): GitLab gives due_date as None or as
\* "YYYY-MM-DD"; the importer also provides for ""
MilestonePool ==
  {[title |-> "v1", description |-> "first", due_date |-> None, state |-> "active"],
   [title |-> "v1", description |-> "again", due_date |-> Some("2024-05-01"), state |-> "closed"],
   [title |-> "v2", description |-> "", due_date |-> Some(""), state |-> "closed"],
   [title |-> "v3", description |-> "", due_date |-> Some("2024-05-01"), state |-> "active"]}

MilestoneLists == SeqsUpTo(MilestonePool, MaxMilestones)

\* Forgejo serves /repos/{owner}/{repo}/... for a repository it has
FgHasRepo(owner, repo) == [owner |-> owner, name |-> repo] \in fgRepos

\* GET /repos/{owner}/{repo}/milestones
get_milestones(owner, repo, lost) ==
  LET ok == FgHasRepo(owner, repo) /\ ~lost
  IN  [list |-> IF ok THEN fgMilestones ELSE {},
       evs |-> <<Request("forgejo", "get_milestones", [owner |-> owner, repo |-> repo], ok)>>
               \o (IF ok THEN <<>> ELSE <<Error("load existing milestones", repo)>>)]

milestone_exists(owner, repo, milestone, lost) ==
  LET existing_milestones_ == get_milestones(owner, repo, lost)
      found == \E item \in existing_milestones_.list : item.title = milestone
  IN  [exists |-> found,
       evs |-> existing_milestones_.evs
               \o <<Check("milestone", [owner |-> owner, repo |-> repo, title |-> milestone], found)>>]

\* dateutil.parser.parse(d).strftime("%Y-%m-%dT%H:%M:%SZ") of a date without
\* a time of day
strftime(d) == d \o "T00:00:00Z"

\* due_date of _import_project_milestones
milestone_due_date(due_date) ==
  IF due_date # None /\ due_date # Some("") THEN Some(strftime(due_date[1])) ELSE None

\* a slip: the state is patched whatever the answer to the POST was
milestone_update_always(import_ok) == TRUE

\* if import_response.ok: ... if existing_milestone: the answer of Forgejo to
\* a POST that it accepted carries the milestone created
milestone_update(import_ok) == import_ok

MaxIssues == 2

\* project.issues.list(all=True)
IssuePool ==
  {[title |-> "bug", description |-> "it breaks", due_date |-> None, state |-> "opened",
    assignee |-> Some([username |-> alice]), assignees |-> <<[username |-> alice]>>,
    milestone |-> Some([title |-> "v1"]), labels |-> <<"bug", "ui">>],
   [title |-> "task", description |-> "", due_date |-> Some("2024-05-01"), state |-> "closed",
    assignee |-> None, assignees |-> <<>>,
    milestone |-> None, labels |-> <<>>],
   [title |-> "idea", description |-> "", due_date |-> None, state |-> "opened",
    assignee |-> None, assignees |-> <<>>,
    milestone |-> Some([title |-> "v9"]), labels |-> <<"wish", "ui">>],
   [title |-> "bug", description |-> "once more", due_date |-> None, state |-> "closed",
    assignee |-> None, assignees |-> <<>>,
    milestone |-> Some([title |-> "v2"]), labels |-> <<"wish">>]}

IssueLists == SeqsUpTo(IssuePool, MaxIssues)

\* GET /repos/{owner}/{repo}/labels; the message names milestones
get_labels(owner, repo, lost) ==
  LET ok == FgHasRepo(owner, repo) /\ ~lost
  IN  [list |-> IF ok THEN fgLabels ELSE {},
       evs |-> <<Request("forgejo", "get_labels", [owner |-> owner, repo |-> repo], ok)>>
               \o (IF ok THEN <<>> ELSE <<Error("load existing milestones", repo)>>)]

\* GET /repos/{owner}/{repo}/issues with state all and page -1
get_issues(owner, repo, lost) ==
  LET ok == FgHasRepo(owner, repo) /\ ~lost
  IN  [list |-> IF ok THEN fgIssues ELSE {},
       evs |-> <<Request("forgejo", "get_issues", [owner |-> owner, repo |-> repo], ok)>>
               \o (IF ok THEN <<>> ELSE <<Error("load existing issues", repo)>>)]

issue_exists(owner, repo, issue, lost) ==
  LET existing_issues == get_issues(owner, repo, lost)
      found == \E item \in existing_issues.list : item.title = issue
  IN  [exists |-> found,
       evs |-> existing_issues.evs
               \o <<Check("issue", [owner |-> owner, repo |-> repo, title |-> issue], found)>>]

\* next(item for item in items if ...): the lists of Forgejo come in the order of the ids
first(items) == CHOOSE item \in items : \A other \in items : item.id <= other.id

\* a slip: the milestone is not matched by its title
issue_milestone_any(milestone, existing) ==
  IF milestone # None /\ existing # {} THEN Some(first(existing).id) ELSE None

\* milestone of _import_project_issues
issue_milestone(milestone, existing) ==
  LET matching == {item \in existing : milestone # None /\ item.title = milestone[1].title}
  IN  IF matching # {} THEN Some(first(matching).id) ELSE None

\* labels of _import_project_issues
RECURSIVE issue_labels(_, _)
issue_labels(labels, existing) ==
  IF labels = <<>> THEN <<>>
  ELSE LET matching == {item \in existing : item.name = Head(labels)}
       IN  (IF matching # {} THEN <<first(matching).id>> ELSE <<>>)
           \o issue_labels(Tail(labels), existing)

\* due_date of _import_project_issues
issue_due_date(due_date) == IF due_date # None THEN strftime(due_date[1]) ELSE ""

\* the helper that is called
Helpers == {"collaborators", "milestones", "issues"}

\* what the repository of the project holds on the Forgejo side
TrackerTargets ==
  {[fgMilestones |-> {}, fgLabels |-> {}, fgIssues |-> {}],
   [fgMilestones |-> {[id |-> 1, title |-> "v1", due_on |-> None]},
    fgLabels |-> {}, fgIssues |-> {}],
   [fgMilestones |-> {[id |-> 1, title |-> "v1", due_on |-> None]},
    fgLabels |-> {[id |-> 1, name |-> "bug"], [id |-> 2, name |-> "ui"]},
    fgIssues |-> {}],
   [fgMilestones |-> {[id |-> 3, title |-> "v2", due_on |-> None]},
    fgLabels |-> {[id |-> 2, name |-> "ui"]},
    fgIssues |-> {[title |-> "bug"]}]}

InitProject ==
  /\ pc \in Helpers
  /\ args = [none |-> TRUE]
  /\ GLOBAL_ERROR_COUNT = 0
  /\ trace = <<>>
  /\ idx = 1 /\ jdx = 1 /\ first_team = 0 /\ run = 1 /\ faults = 0
  /\ users = <<>> /\ groups = <<>> /\ projects = <<>>
  /\ fg_project \in {[name |-> <<"M","y"," ","A","p","p">>,
                   namespace |-> [name |-> DevOps, path |-> <<"d","e","v","-","o","p","s">>]],
                  [name |-> <<"t","o","o","l">>, namespace |-> [name |-> bob, path |-> bob]]}
  /\ collaborators \in IF pc = "collaborators" THEN CollaboratorLists ELSE {<<>>}
  /\ milestones \in IF pc = "milestones" THEN MilestoneLists ELSE {<<>>}
  /\ issues \in IF pc = "issues" THEN IssueLists ELSE {<<>>}
  /\ \E t \in TrackerTargets :
       /\ pc = "collaborators" => t.fgMilestones = {}
       /\ pc # "issues" => t.fgLabels = {} /\ t.fgIssues = {}
       /\ fgMilestones = t.fgMilestones /\ fgLabels = t.fgLabels /\ fgIssues = t.fgIssues
  /\ existing_milestones = {} /\ existing_labels = {}
  /\ fgUsers = {alice, bob} /\ fgKeys = {} /\ fgOrgs = {name_clean(DevOps)}
  /\ fgTeams = {} /\ fgMembers = {}
  /\ fgRepos = {[owner |-> name_clean(DevOps), name |-> <<"M","y","_","A","p","p">>],
                [owner |-> bob, name |-> <<"t","o","o","l">>]}
  /\ fgCollaborators \in IF pc = "collaborators"
                        THEN {{}, {[owner |-> bob, repo |-> <<"t","o","o","l">>, username |-> alice]}}
                        ELSE {{}}
  /\ IdleClean /\ IdleMirror

\* one turn of the for loop of _import_project_repo_collaborators.  Forgejo
\* adds a collaborator to a repository it has, and answers OK for one that
\* is a collaborator already.
ImportCollaborator ==
  /\ pc = "collaborators"
  /\ idx <= Len(collaborators)
  /\ \E w \in Wrong(2) :
       LET collaborator == collaborators[idx]
           proj_name == fg_project.namespace.name
           clean_proj_name == name_clean(fg_project.name)
           chk == collaborator_exists(proj_name, clean_proj_name, collaborator.username, w[1])
           map == permission(collaborator.access_level)
           id == [owner |-> proj_name, repo |-> clean_proj_name, username |-> collaborator.username]
           present == id \in fgCollaborators
           ok == [owner |-> proj_name, name |-> clean_proj_name] \in fgRepos /\ ~w[2]
       IN  /\ w[1] => FgHasCollaborator(chk.evs[1].key.path)
           /\ w[2] => ~chk.exists /\ map.supported
           /\ IF chk.exists
              THEN /\ Emit(chk.evs)
                   /\ fgCollaborators' = fgCollaborators
              ELSE IF ~map.supported
              THEN /\ Emit(chk.evs \o <<Error("Groupmembers are currently not supported", collaborator.username)>>)
                   /\ fgCollaborators' = fgCollaborators
              ELSE /\ Emit(chk.evs
                           \o (IF map.warned
                               THEN <<[ev |-> "print_warning", what |-> "unsupported access level",
                                       key |-> collaborator.access_level]>>
                               ELSE <<>>)
                           \o <<Create("put_collaborator", id, chk.evs[2].key, present, w[1], ok)
                                @@ [permission |-> map.permission]>>
                           \o (IF ok THEN <<>> ELSE <<Error("collaborator import failed", collaborator.username)>>))
                   /\ fgCollaborators' = IF ok THEN fgCollaborators \cup {id} ELSE fgCollaborators
           /\ faults' = faults + Count(w)
  /\ idx' = idx + 1
  /\ UNCHANGED <<pc, args, sourceVars, targetVars, jdx, first_team, run,
                 fg_project, collaborators, trackerVars, cleanVars, mirrorVars>>

\* _import_project_repo_collaborators returns
EndCollaborators ==
  /\ pc = "collaborators"
  /\ idx > Len(collaborators)
  /\ pc' = "returned"
  /\ idx' = 1
  /\ UNCHANGED <<args, GLOBAL_ERROR_COUNT, trace, migrateVars, projectVars, cleanVars, mirrorVars>>

\* one turn of the for loop of _import_project_milestones
ImportMilestone ==
  /\ pc = "milestones"
  /\ idx <= Len(milestones)
  /\ \E w \in Wrong(3) :
       LET milestone == milestones[idx]
           owner == fg_project.namespace.name
           repo == name_clean(fg_project.name)
           served == FgHasRepo(owner, repo)
           chk == milestone_exists(owner, repo, milestone.title, w[1])
           due_date == milestone_due_date(milestone.due_date)
           import_ok == served /\ ~w[2]
           existing_milestone == [id |-> FreshId(fgMilestones), title |-> milestone.title,
                                  due_on |-> due_date]
           patched == milestone_update(import_ok)
           update_ok == import_ok /\ ~w[3]
           post == Request("forgejo", "post_milestone",
                           [owner |-> owner, repo |-> repo], import_ok)
                   @@ [json |-> [description |-> milestone.description, due_on |-> due_date,
                                 title |-> milestone.title]]
           patch == Request("forgejo", "patch_milestone",
                            [owner |-> owner, repo |-> repo, id |-> existing_milestone.id],
                            update_ok)
                    @@ [json |-> [description |-> milestone.description, due_on |-> due_date,
                                  title |-> milestone.title, state |-> milestone.state]]
       IN  /\ w[1] => served
           /\ w[2] => ~chk.exists /\ served
           /\ w[3] => ~chk.exists /\ import_ok
           /\ IF chk.exists
              THEN /\ Emit(chk.evs)
                   /\ fgMilestones' = fgMilestones
              ELSE /\ Emit(chk.evs \o <<post>>
                           \o (IF import_ok
                               THEN <<Info("Milestone imported", milestone.title)>>
                               ELSE <<Error("Milestone import failed", milestone.title)>>)
                           \o (IF ~patched THEN <<>>
                               ELSE IF update_ok
                               THEN <<patch, Info("Milestone updated", milestone.title)>>
                               ELSE <<patch, Error("Milestone update failed", milestone.title)>>))
                   /\ fgMilestones' = IF import_ok THEN fgMilestones \cup {existing_milestone}
                                      ELSE fgMilestones
           /\ faults' = faults + Count(w)
  /\ idx' = idx + 1
  /\ UNCHANGED <<pc, args, sourceVars, targetVars, jdx, first_team, run,
                 fg_project, collaborators, fgCollaborators, milestones, issues,
                 fgLabels, fgIssues, existing_milestones, existing_labels,
                 cleanVars, mirrorVars>>

\* _import_project_milestones returns
EndMilestones ==
  /\ pc = "milestones"
  /\ idx > Len(milestones)
  /\ pc' = "returned"
  /\ idx' = 1
  /\ UNCHANGED <<args, GLOBAL_ERROR_COUNT, trace, migrateVars, projectVars, cleanVars, mirrorVars>>

\* the head of _import_project_issues: the milestones and labels are loaded
\* once, before the loop
LoadExisting ==
  /\ pc = "issues"
  /\ \E w \in Wrong(2) :
       LET owner == fg_project.namespace.name
           repo == name_clean(fg_project.name)
           loaded_milestones == get_milestones(owner, repo, w[1])
           loaded_labels == get_labels(owner, repo, w[2])
       IN  /\ w[1] \/ w[2] => FgHasRepo(owner, repo)
           /\ Emit(loaded_milestones.evs \o loaded_labels.evs)
           /\ existing_milestones' = loaded_milestones.list
           /\ existing_labels' = loaded_labels.list
           /\ faults' = faults + Count(w)
  /\ pc' = "issue"
  /\ idx' = 1
  /\ UNCHANGED <<args, sourceVars, targetVars, jdx, first_team, run,
                 fg_project, collaborators, fgCollaborators, milestones, issues,
                 fgMilestones, fgLabels, fgIssues, cleanVars, mirrorVars>>

\* one turn of the for loop of _import_project_issues
ImportIssue ==
  /\ pc = "issue"
  /\ idx <= Len(issues)
  /\ \E w \in Wrong(2) :
       LET issue == issues[idx]
           owner == fg_project.namespace.name
           repo == name_clean(fg_project.name)
           served == FgHasRepo(owner, repo)
           chk == issue_exists(owner, repo, issue.title, w[1])
           assignees == [k \in DOMAIN issue.assignees |-> issue.assignees[k].username]
           import_ok == served /\ ~w[2]
           json == [assignee |-> IF issue.assignee # None THEN Some(issue.assignee[1].username)
                                 ELSE None,
                    assignees |-> assignees,
                    body |-> issue.description,
                    closed |-> issue.state = "closed",
                    due_on |-> issue_due_date(issue.due_date),
                    labels |-> issue_labels(issue.labels, existing_labels),
                    milestone |-> issue_milestone(issue.milestone, existing_milestones),
                    title |-> issue.title]
           post == Request("forgejo", "post_issue", [owner |-> owner, repo |-> repo], import_ok)
                   @@ [json |-> json]
       IN  /\ w[1] => served
           /\ w[2] => ~chk.exists /\ served
           /\ IF chk.exists
              THEN /\ Emit(chk.evs)
                   /\ fgIssues' = fgIssues
              ELSE /\ Emit(chk.evs \o <<post>>
                           \o (IF import_ok
                               THEN <<Info("Issue imported", issue.title)>>
                               ELSE <<Error("Issue import failed", issue.title)>>))
                   /\ fgIssues' = IF import_ok THEN fgIssues \cup {[title |-> issue.title]}
                                  ELSE fgIssues
           /\ faults' = faults + Count(w)
  /\ idx' = idx + 1
  /\ UNCHANGED <<pc, args, sourceVars, targetVars, jdx, first_team, run,
                 fg_project, collaborators, fgCollaborators, milestones, issues,
                 fgMilestones, fgLabels, existing_milestones, existing_labels,
                 cleanVars, mirrorVars>>

\* _import_project_issues returns
EndIssues ==
  /\ pc = "issue"
  /\ idx > Len(issues)
  /\ pc' = "returned"
  /\ idx' = 1
  /\ UNCHANGED <<args, GLOBAL_ERROR_COUNT, trace, migrateVars, projectVars, cleanVars, mirrorVars>>

NextProject ==
  \/ ImportCollaborator
  \/ EndCollaborators
  \/ ImportMilestone
  \/ EndMilestones
  \/ LoadExisting
  \/ ImportIssue
  \/ EndIssues

SpecProject == InitProject /\ [][NextProject]_vars

(***************************************************************************)
(* The run as the trace shows it                                           *)
(***************************************************************************)
StartOf(r) == CHOOSE k \in DOMAIN trace : trace[k].ev = "start" /\ trace[k].run = r
Started(r) == \E k \in DOMAIN trace : trace[k].ev = "start" /\ trace[k].run = r
EndOf(r) == IF Started(r + 1) THEN StartOf(r + 1) - 1 ELSE Len(trace)

\* the events of run r
RunEvents(r) == IF Started(r) THEN SubSeq(trace, StartOf(r), EndOf(r)) ELSE <<>>

IsStatus(e) ==
  \/ e.ev = "print_success"
  \/ e.ev = "print_error" /\ e.what = "finished with errors"

\* run r printed its status line
Finished(r) == \E k \in DOMAIN RunEvents(r) : IsStatus(RunEvents(r)[k])

WantsUsers(r) == Started(r) /\ (trace[StartOf(r)].args["users"] \/ trace[StartOf(r)].args["all"])

\* the create requests of run r with operation op
Creates(r, op) ==
  {k \in DOMAIN RunEvents(r) : IsCreate(RunEvents(r)[k]) /\ RunEvents(r)[k].op = op}

\* the events the step just taken added to the trace
Added == SubSeq(trace', Len(trace) + 1, Len(trace'))


(***************************************************************************)
(* name_clean (SpecClean)                                                  *)
(***************************************************************************)
Cleaned == pc \in {"cleaned", "cleaned_twice"}

\* what the two replacements make of one character
CleanChar(c) == IF c = " " THEN "_" ELSE IF c \in AllowedChar THEN c ELSE "-"

\* C6: name_clean is idempotent: name_clean(name_clean(x)) = name_clean(x)
\* for every input x, the spellings of the reserved word included.
C6_Idempotent == pc = "cleaned_twice" => again = new_name

C6_Witness ==
  /\ pc = "cleaned_twice"
  /\ name \in ReservedSpellings /\ name # RESERVED
  /\ new_name = name \o SUFFIX
  /\ again = new_name

\* C7: for a non-empty input name_clean returns a non-empty string of
\* characters of [A-Za-z0-9_.-]; a space becomes an underscore, any other
\* character outside the class a hyphen, one character for one character,
\* and nothing is added but the suffix of the reserved word.
C7_AllowedCharacters ==
  Cleaned /\ name # <<>> =>
    /\ new_name # <<>>
    /\ \A k \in DOMAIN new_name : new_name[k] \in AllowedChar
    /\ Len(new_name) >= Len(name)
    /\ \A k \in DOMAIN name : new_name[k] = CleanChar(name[k])
    /\ Len(new_name) > Len(name) => SubSeq(new_name, Len(name) + 1, Len(new_name)) = SUFFIX

C7_Witness ==
  /\ pc = "cleaned"
  /\ name = <<" ", "/", "U+00C9">>
  /\ new_name = <<"_", "-", "-">>

\* C8: name_clean never returns a string that is "plugins" once lowered:
\* when the name after the two replacements is the reserved word in any
\* letter case, the suffix "-user" is appended to it.
C8_NeverReserved ==
  Cleaned =>
    /\ lower(new_name) # RESERVED
    /\ pc = "cleaned_twice" => lower(again) # RESERVED
    /\ lower(re_sub(replace_space(name))) = RESERVED
         => new_name = re_sub(replace_space(name)) \o SUFFIX

C8_Witness ==
  /\ pc = "cleaned"
  /\ name = <<"P","L","U","G","I","N","S">>
  /\ new_name = <<"P","L","U","G","I","N","S","-","u","s","e","r">>

(***************************************************************************)
(* create_push_mirrors.py (SpecMirror)                                     *)
(***************************************************************************)
IsRequest(e) == e.ev = "request"
MirrorOps == {"remote_mirrors.create", "remote_mirrors.delete", "remote_mirrors.list",
              "push_mirrors.create", "push_mirrors.list"}

\* C9, as the specification states it: with both --create and --delete the
\* run sends no request at all, neither to GitLab nor to Forgejo.
C9_NoNetworkCall ==
  args["create"] /\ args["delete"] => \A k \in DOMAIN trace : ~IsRequest(trace[k])

\* C9, as the code has it: with both --create and --delete the run is
\* rejected before any mirror is listed, created or deleted and before any
\* request to Forgejo; the requests it sends are the authentication, the
\* version and the project listing of GitLab; the rejection is one counted
\* error, after which the run ends without a status line.
C9_NoMirrorCall ==
  args["create"] /\ args["delete"] =>
    /\ \A k \in DOMAIN trace :
         IsRequest(trace[k]) =>
           trace[k].to = "gitlab" /\ trace[k].op \in {"auth", "version", "projects.list"}
    /\ pc \in {"connect", "check", "exit", "crashed"}
    /\ pc = "exit" =>
         /\ trace[Len(trace)] = Error("create and delete", "")
         /\ GLOBAL_ERROR_COUNT = 1
         /\ \A k \in DOMAIN trace : ~IsStatus(trace[k])

C9_Witness ==
  /\ pc = "exit"
  /\ args["create"] /\ args["delete"] /\ args["to-forgejo"]
  /\ all_projects # <<>>
  /\ Len(trace) = 4

\* C10: in each of the four mirror loops a failed mirror call of one
\* project is printed as an error and counted, no call ends the run, the
\* loop goes on to the projects that remain, and a call that succeeded is
\* not counted.
C10_MirrorFailureCounted ==
  /\ \A k \in DOMAIN trace :
       trace[k].ev = "exception" => trace[k].what = "gl.auth"
  /\ \A k \in DOMAIN trace :
       IsRequest(trace[k]) /\ trace[k].op \in MirrorOps /\ ~trace[k].ok
         => k < Len(trace) /\ trace[k + 1].ev = "print_error"
  /\ \A k \in DOMAIN trace :
       IsRequest(trace[k]) /\ trace[k].op \in MirrorOps /\ trace[k].ok /\ k < Len(trace)
         => trace[k + 1].ev # "print_error" \/ IsStatus(trace[k + 1])
  /\ GLOBAL_ERROR_COUNT = Errors(trace)
  /\ pc \in Range(Phases) => idx <= Len(all_projects) + 1

\* C11: a run of the mirror tool that selects no direction flag, or not
\* exactly one of --create and --delete, ends in an error: it never prints
\* the line of a finish with no errors.
C11_NoDirectionIsError ==
  LET direction == args["to-forgejo"] \/ args["to-gitlab"] \/ args["all"]
      one_action == args["create"] # args["delete"]
  IN  ~(direction /\ one_action) =>
        /\ \A k \in DOMAIN trace : trace[k].ev # "print_success"
        /\ pc = "done" => GLOBAL_ERROR_COUNT > 0

\* C12: with GITLAB_ADMIN_PASS empty, a push mirror created in the
\* direction to-forgejo has an SSH URL, with no credentials in it.
C12_SshUrlWithoutPassword ==
  GITLAB_ADMIN_PASS = "" =>
    \A k \in DOMAIN trace :
      IsRequest(trace[k]) /\ trace[k].op = "remote_mirrors.create" =>
        trace[k].key.url.scheme = "ssh" /\ trace[k].key.url.password = ""

\* the projects of the listing
Listed == {all_projects[k] : k \in DOMAIN all_projects}

\* C13: a delete run lists the mirrors of each project on the side that
\* holds them and deletes each one there: once the run has finished, a
\* mirror of a selected direction is left for a listed project only where
\* the delete request for it, sent to the side that holds it, failed.
C13_DeleteRemovesMirrors ==
  pc = "done" /\ args["delete"] =>
    /\ args["to-forgejo"] \/ args["all"] =>
         \A p \in Listed :
           GlMirrorsOf(p) # {} =>
             \E k \in DOMAIN trace :
               /\ IsRequest(trace[k]) /\ trace[k].op = "remote_mirrors.delete"
               /\ trace[k].to = "gitlab" /\ trace[k].key.project = p.id /\ ~trace[k].ok
    /\ args["to-gitlab"] \/ args["all"] =>
         \A p \in Listed :
           FgMirrorsAt(path_with_namespace(p)) # {} =>
             \E k \in DOMAIN trace :
               /\ IsRequest(trace[k]) /\ trace[k].op = "push_mirrors.delete"
               /\ trace[k].to = "forgejo" /\ ~trace[k].ok

(***************************************************************************)
(* migrate.py (Spec)                                                       *)
(***************************************************************************)
\* C1: no entity is created twice: in one run and in repeated runs no create
\* request is sent for an entity the Forgejo side holds already, the
\* existence check before it having been answered.
C1_NoEntityCreatedTwice ==
  \A k \in DOMAIN trace :
    IsCreate(trace[k]) /\ ~trace[k].lookup_failed => ~trace[k].present

AliceScenario ==
  /\ users = <<[username |-> alice, keys |-> <<laptop>>]>>
  /\ faults = 0
  /\ WantsUsers(1)
  /\ Finished(1)
  /\ \E k \in DOMAIN RunEvents(1) : RunEvents(1)[k] = Check("user", [username |-> alice], FALSE)

UserCreates(r, username) ==
  {k \in Creates(r, "admin_create_user") : RunEvents(r)[k].key.username = username}

\* C3, as the specification states it: the first user import sends exactly
\* one user-create request (alice) and one key-create request (laptop), the
\* second one no create request.
C3_AliceScenario ==
  AliceScenario =>
    /\ Cardinality(Creates(1, "admin_create_user")) = 1
    /\ Cardinality(UserCreates(1, alice)) = 1
    /\ Cardinality(Creates(1, "admin_create_public_key")) = 1
    /\ WantsUsers(2) /\ Finished(2) => \A k \in DOMAIN RunEvents(2) : ~IsCreate(RunEvents(2)[k])

\* C3, as the code has it: the first user import sends exactly one
\* user-create request for alice and one key-create request for laptop, and
\* besides them one user-create request for the account "redirect" exactly
\* when the target lacks that account; the second user import sends no
\* create request.
C3_AliceScenarioWithRedirect ==
  AliceScenario =>
    LET evs == RunEvents(1)
        redirect_absent == \E k \in DOMAIN evs : evs[k] = Check("user", [username |-> redirect], FALSE)
    IN  /\ Cardinality(UserCreates(1, alice)) = 1
        /\ Cardinality(UserCreates(1, redirect)) = IF redirect_absent THEN 1 ELSE 0
        /\ Creates(1, "admin_create_user") = UserCreates(1, alice) \cup UserCreates(1, redirect)
        /\ Cardinality(Creates(1, "admin_create_public_key")) = 1
        /\ \A k \in Creates(1, "admin_create_public_key") :
             evs[k].key = [username |-> alice, title |-> laptop]
        /\ \A k \in DOMAIN evs : IsCreate(evs[k]) => evs[k].ok
        /\ WantsUsers(2) /\ Finished(2) => \A k \in DOMAIN RunEvents(2) : ~IsCreate(RunEvents(2)[k])

C3_Witness ==
  /\ AliceScenario
  /\ Cardinality(UserCreates(1, redirect)) = 1
  /\ WantsUsers(2) /\ Finished(2)
  /\ pc = "done"

\* every entity of the wanted kinds has its existence check in the run
Checked(kind, key) ==
  \E k \in DOMAIN RunEvents(run) :
    /\ RunEvents(run)[k].ev = "check"
    /\ RunEvents(run)[k].kind = kind
    /\ RunEvents(run)[k].key = key

AllProcessed ==
  /\ Wanted(args, 1) =>
       \A u \in DOMAIN users :
         /\ Checked("user", [username |-> users[u].username])
         /\ \A j \in DOMAIN users[u].keys :
              Checked("key", [username |-> users[u].username, title |-> users[u].keys[j]])
  /\ Wanted(args, 2) =>
       \A g \in DOMAIN groups : Checked("organization", [orgname |-> name_clean(groups[g].name)])
  /\ Wanted(args, 3) =>
       \A p \in DOMAIN projects :
         Checked("repository", [owner |-> projects[p].namespace.name,
                                repo |-> name_clean(projects[p].name)])

\* C4: a creation that failed is printed as an error and counted, it does
\* not end the loop it is in: the entities that remain are processed and the
\* run reaches its status line.
C4_FailureCountedLoopContinues ==
  /\ \A k \in DOMAIN trace :
       IsCreate(trace[k]) /\ ~trace[k].ok => k < Len(trace) /\ trace[k + 1].ev = "print_error"
  /\ GLOBAL_ERROR_COUNT = Errors(RunEvents(run))
  /\ pc = "crashed" => trace[Len(trace)] = Exception("gl.auth", "")
  /\ pc \in {"status", "done"} => AllProcessed

\* the failures run r reported before line k of its events
FailuresBefore(events, k) ==
  Cardinality({j \in 1..(k - 1) : events[j].ev = "print_error"})

\* C14: the status line is the last line of a run; it reads "finished with
\* no errors" exactly when the run reported no failure, and otherwise gives
\* the number of failures reported; the counter rises by one with every
\* print_error and is never lowered or reset during the run.
C14_StatusLineCountsFailures ==
  /\ GLOBAL_ERROR_COUNT = Errors(RunEvents(run))
  /\ \A r \in 1..run :
       LET events == RunEvents(r)
       IN  \A k \in DOMAIN events :
             IsStatus(events[k]) =>
               /\ k = Len(events)
               /\ events[k].ev = "print_success" <=> FailuresBefore(events, k) = 0
               /\ events[k].ev = "print_error" => events[k].key = FailuresBefore(events, k)

C14_Witness ==
  /\ pc = "done"
  /\ run = 2
  /\ trace[Len(trace)] = Error("finished with errors", 2)
  /\ GLOBAL_ERROR_COUNT = 3
  /\ \E k \in DOMAIN RunEvents(1) : RunEvents(1)[k].ev = "print_success"

\* C15: the notify flag of the command line is carried into user creation:
\* every user-create request for a user of the source has send_notify set
\* when the run was started with --notify and unset when it was not.
C15_NotifyCarried ==
  \A k \in DOMAIN trace :
    /\ IsCreate(trace[k])
    /\ trace[k].op = "admin_create_user"
    /\ \E u \in DOMAIN users : users[u].username = trace[k].key.username
    => trace[k].send_notify = args["notify"]

\* the places of the requests with operation op among the events added
AddedOp(op) == {k \in DOMAIN Added : IsRequest(Added[k]) /\ Added[k].op = op}

\* C16: the owner of a project is looked up as a user by the raw namespace
\* path first and, only when that fails, as an organization by the cleaned
\* namespace name; when both fail no repository is created for the project,
\* the error counter rises and the loop goes on with the next project.
C16_OwnerResolution ==
  [][pc = "projects" /\ idx <= Len(projects) /\ AddedOp("get_users") \cup AddedOp("get_orgs") # {} =>
       LET project == projects[idx]
           as_user == AddedOp("get_users")
           as_org == AddedOp("get_orgs")
           user_found == \E k \in as_user : Added[k].ok
           org_found == \E k \in as_org : Added[k].ok
       IN  /\ Cardinality(as_user) = 1
           /\ \A k \in as_user : Added[k].key = [username |-> project.namespace.path]
           /\ as_org # {} <=> ~user_found
           /\ Cardinality(as_org) <= 1
           /\ \A k \in as_org :
                /\ Added[k].key = [orgname |-> name_clean(project.namespace.name)]
                /\ \A j \in as_user : j < k
           /\ ~user_found /\ ~org_found =>
                /\ \A k \in DOMAIN Added : ~IsCreate(Added[k])
                /\ GLOBAL_ERROR_COUNT' > GLOBAL_ERROR_COUNT
                /\ pc' = "projects" /\ idx' = idx + 1
           /\ user_found \/ org_found =>
                \E k \in DOMAIN Added :
                  /\ IsCreate(Added[k]) /\ Added[k].op = "repo_migrate"
                  /\ Added[k].key.owner = IF user_found THEN project.namespace.path
                                          ELSE name_clean(project.namespace.name)]_vars

\* both lookups failed for a project and the loop went on to the next one
C16_Witness ==
  /\ pc = "projects"
  /\ \E k, j \in DOMAIN RunEvents(run) :
       /\ k < j
       /\ RunEvents(run)[k].ev = "print_error" /\ RunEvents(run)[k].what = "load project owner"
       /\ RunEvents(run)[j].ev = "check" /\ RunEvents(run)[j].kind = "repository"
  /\ \E k \in DOMAIN trace : IsRequest(trace[k]) /\ trace[k].op = "get_orgs" /\ trace[k].ok

\* the kind whose importer sends a request: 1 for import_users, 2 for
\* import_groups, 3 for import_projects, 0 for the requests of main() itself
KindOfCall(op) ==
  CASE op \in {"user_get", "admin_create_user", "user_list_keys", "admin_create_public_key"} -> 1
    [] op \in {"org_get", "org_create", "org_list_teams", "get_team_members", "put_users"} -> 2
    [] op \in {"repo_get", "get_users", "get_orgs", "repo_migrate"} -> 3
    [] OTHER -> 0

\* C21: within one run the kinds are processed in the order users, groups,
\* projects: no request of the user import (checks and creations of users
\* and keys) comes after a request of the group import (organizations, teams,
\* members), and none of these after a request of the project import.
C21_KindsInOrder ==
  \A r \in 1..run :
    LET events == RunEvents(r)
        calls == {k \in DOMAIN events : IsRequest(events[k]) /\ KindOfCall(events[k].op) > 0}
    IN  \A i, j \in calls :
          i < j => KindOfCall(events[i].op) <= KindOfCall(events[j].op)

\* a run with --all created a user, an organization and a repository
C21_Witness ==
  /\ pc = "done"
  /\ args["all"]
  /\ \E r \in 1..run :
       /\ Creates(r, "admin_create_user") # {}
       /\ Creates(r, "org_create") # {}
       /\ Creates(r, "repo_migrate") # {}

\* the requests and checks of the importers of collaborators, labels,
\* milestones and issues
HelperOps ==
  {"get_collaborator", "put_collaborator", "get_labels", "post_label", "get_milestones",
   "post_milestone", "patch_milestone", "get_issues", "post_issue"}
HelperKinds == {"collaborator", "label", "milestone", "issue"}

C17_FailedLookupLogged ==
  \A k \in DOMAIN trace :
    IsCreate(trace[k]) /\ trace[k].lookup_failed =>
      \E j \in 1..(k - 1) :
        /\ trace[j].ev = "print_error"
        /\ \A i \in (j + 1)..(k - 1) : trace[i].ev = "check"

\* C20: when the organization of a group has no team on the target, the
\* member import of the group sends no request that adds a member, reports
\* exactly one error, which raises the error counter by exactly one, and the
\* loop over the groups goes on with the next group.
C20_NoTeamOneError ==
  [][/\ pc = "teams" /\ trace' # trace
     /\ name_clean(groups[idx].name) \in fgOrgs
     /\ TeamsOf(name_clean(groups[idx].name)) = {}
     => /\ AddedOp("put_users") = {}
        /\ Errors(Added) = 1
        /\ GLOBAL_ERROR_COUNT' = GLOBAL_ERROR_COUNT + 1
        /\ pc' = "groups"
        /\ idx' = idx + 1]_vars

\* the events of one kind and text among the events added
AddedSaid(ev, what) == {k \in DOMAIN Added : Added[k].ev = ev /\ Added[k].what = what}

\* C18: for a milestone that the target does not have, the milestone importer
\* sends the creating request first and the updating request, which carries
\* the state of the source, exactly when the creation succeeded and after it;
\* an update that fails is reported by one error of its own, counted once,
\* while the creation stays reported as done; a source due date that is None
\* or empty is sent as a null due date in both requests.
C18_MilestoneCreateThenUpdate ==
  [][/\ pc = "milestones" /\ idx <= Len(milestones) /\ trace' # trace
     /\ ~\E m \in fgMilestones : m.title = milestones[idx].title
     => LET milestone == milestones[idx]
            posts == AddedOp("post_milestone")
            patches == AddedOp("patch_milestone")
        IN  /\ Cardinality(posts) = 1
            /\ Cardinality(patches) <= 1
            /\ \A k \in posts :
                 /\ patches # {} <=> Added[k].ok
                 /\ \A j \in patches : k < j /\ Added[j].json.state = milestone.state
                 /\ Added[k].ok <=> AddedSaid("print_info", "Milestone imported") # {}
                 /\ ~Added[k].ok <=> AddedSaid("print_error", "Milestone import failed") # {}
            /\ \A j \in patches :
                 /\ ~Added[j].ok <=> AddedSaid("print_error", "Milestone update failed") # {}
                 /\ Cardinality(AddedSaid("print_error", "Milestone update failed")) <= 1
            /\ GLOBAL_ERROR_COUNT' = GLOBAL_ERROR_COUNT + Errors(Added)
            /\ milestone.due_date \in {None, Some("")} =>
                 \A k \in posts \cup patches : Added[k].json.due_on = None
            /\ milestone.due_date \notin {None, Some("")} =>
                 \A k \in posts \cup patches : Added[k].json.due_on # None]_vars

\* a milestone without a due date was created and the update of its state failed
C18_Witness ==
  \E k \in DOMAIN trace :
    /\ IsRequest(trace[k]) /\ trace[k].op = "patch_milestone"
    /\ ~trace[k].ok
    /\ trace[k].json.due_on = None
    /\ trace[k - 1].ev = "print_info"
    /\ GLOBAL_ERROR_COUNT = 1

\* C19: in the request that creates an issue the milestone is null when the
\* target has no milestone of the title of the source milestone, and the
\* labels are those of the target whose names the source issue carries, the
\* others left out, so none at all when no name matches; nothing of this is
\* an error: errors are printed, and counted, only for requests that failed,
\* and the creating request is sent for every issue not found on the target.
C19_UnmatchedIsNoError ==
  [][pc = "issue" /\ idx <= Len(issues) /\ trace' # trace =>
       LET issue == issues[idx]
           posts == AddedOp("post_issue")
           found == \E k \in DOMAIN Added : Added[k].ev = "check" /\ Added[k].exists
           failed == {k \in DOMAIN Added : IsRequest(Added[k]) /\ ~Added[k].ok}
           no_milestone ==
             \/ issue.milestone = None
             \/ ~\E m \in fgMilestones : m.title = issue.milestone[1].title
           named == {l \in fgLabels : l.name \in Range(issue.labels)}
       IN  /\ posts = {} <=> found
           /\ Cardinality(posts) <= 1
           /\ \A k \in posts :
                /\ no_milestone => Added[k].json.milestone = None
                /\ \A n \in DOMAIN Added[k].json.labels :
                     \E l \in named : l.id = Added[k].json.labels[n]
                /\ named = {} => Added[k].json.labels = <<>>
                /\ Added[k].ok =>
                     /\ [title |-> issue.title] \in fgIssues'
                     /\ AddedSaid("print_info", "Issue imported") # {}
           /\ Errors(Added) = Cardinality(failed)
           /\ GLOBAL_ERROR_COUNT' = GLOBAL_ERROR_COUNT + Cardinality(failed)]_vars

\* an issue whose milestone and labels the target does not have was created
\* with a null milestone and no label, and no error was counted
C19_Witness ==
  /\ pc = "returned"
  /\ GLOBAL_ERROR_COUNT = 0
  /\ [title |-> "idea"] \in fgIssues
  /\ fgLabels = {}
  /\ \E k \in DOMAIN trace :
       /\ IsRequest(trace[k]) /\ trace[k].op = "post_issue" /\ trace[k].ok
       /\ trace[k].json.title = "idea"
       /\ trace[k].json.milestone = None
       /\ trace[k].json.labels = <<>>

(***************************************************************************)
(* _import_project_repo_collaborators (SpecProject)                        *)
(***************************************************************************)
\* C5: the collaborator loop gives access levels 10 and 20 the permission
\* "read", 30 "write" and 40 "admin"; for level 50 it sends no request that
\* adds the collaborator, prints one error, which is counted, and goes on
\* with the next collaborator.
C5_AccessLevelMapping ==
  [][pc = "collaborators" /\ idx <= Len(collaborators) =>
       LET level == collaborators[idx].access_level
           puts == {k \in DOMAIN Added : IsCreate(Added[k])}
       IN  /\ level \in {10, 20, 30, 40} =>
                /\ Cardinality(puts) = 1
                /\ \A k \in puts :
                     /\ Added[k].key.username = collaborators[idx].username
                     /\ Added[k].permission = CASE level \in {10, 20} -> "read"
                                                [] level = 30 -> "write"
                                                [] level = 40 -> "admin"
           /\ level = 50 =>
                /\ puts = {}
                /\ Added[Len(Added)].ev = "print_error"
                /\ GLOBAL_ERROR_COUNT' = GLOBAL_ERROR_COUNT + 1
                /\ pc' = "collaborators" /\ idx' = idx + 1]_vars

C5_Witness ==
  /\ pc = "collaborators"
  /\ idx = 3
  /\ collaborators[1].access_level = 50 /\ collaborators[2].access_level = 30
  /\ \E k \in DOMAIN trace : IsCreate(trace[k]) /\ trace[k].permission = "write" /\ trace[k].ok
  /\ GLOBAL_ERROR_COUNT = 1

=============================================================================
